---- MODULE Spec2Model ----
(***************************************************************************)
(* A model of the two HTTP clients of the repository:                      *)
(*   skills/minrue-integration/scripts/minrue_client.py                    *)
(*       MinRueClient (session with a retry policy, request wrappers,      *)
(*       process_file, the get_result polling loop) and MinRueCLI;         *)
(*   skills/ragflow/scripts/ragflow_client.py                              *)
(*       RagflowClient (session, request wrappers, upload_documents) and   *)
(*       RagflowCLI.run with the __main__ guard.                           *)
(* The program is single-threaded: one client method runs at a time and    *)
(* `pc` is its position.  The remote service and the file system are the   *)
(* environment: every HTTP attempt draws its answer (a status, a body and  *)
(* the seconds it took) from small sets.  Time is in whole seconds and is  *)
(* counted from the start of the running invocation.                       *)
(***************************************************************************)
EXTENDS Integers, Sequences, FiniteSets, TLC

\* ---------------------------------------------------------------- bounds
MaxRetries == 1     \* a client built through the API has retries in 0..MaxRetries
MaxWait == 2        \* get_result(timeout=...) called through the API: 0..MaxWait
MaxInterval == 2    \* get_result(polling_interval=...): 1..MaxInterval
MaxFetch == 1       \* seconds one HTTP attempt may take: 0..MaxFetch
MaxFiles == 2       \* upload_documents(file_paths): 1..MaxFiles paths
CountCap == 2       \* the counters netcalls and polls saturate here

\* ------------------------------------------------------ program constants
DefaultRetries == 3     \* MinRueClient.__init__(retries=3), RagflowClient likewise
ProcessWait == 120      \* MinRueCLI.process: get_result(..., timeout=120, ...)
ResultWait == 60        \* MinRueCLI.result: get_result(..., timeout=60, ...)
CliInterval == 3        \* both: polling_interval=3
DefaultTimeout == 30    \* __init__(timeout=30) of both clients

Min(a, b) == IF a < b THEN a ELSE b

\* ------------------------------------------------------------ the session
\* Retry(status_forcelist=[429, 500, 502, 503, 504])
ForceList == {429, 500, 502, 503, 504}

\* Retry(allowed_methods=["HEAD", "GET", "POST", "PUT", "DELETE", "OPTIONS", "TRACE"])
AllowedMethods == {"HEAD", "GET", "POST", "PUT", "DELETE", "OPTIONS", "TRACE"}

\* The statuses the remote service answers with in this model; 0 stands for an
\* attempt that got no response at all (connection refused, read timeout).
Statuses == {200, 304, 404, 413, 429, 500, 502, 503, 504}

\* Retry(...) leaves respect_retry_after_header at its default, True: a response
\* with one of these statuses that carries a Retry-After header is retried too.
RetryAfterStatuses == {413, 429, 503}

\* Whether a response with status s may carry a Retry-After header (the header
\* changes nothing for the other statuses).
RetryAfterFor(s) == IF s \in RetryAfterStatuses THEN BOOLEAN ELSE {FALSE}

\* Retry.is_retry as configured by _create_session, for a response with the
\* given status, with (ra) or without a Retry-After header, when the Retry
\* object has `left` retries left: the method is allowed, and the status is in
\* the force list or the header asks for the retry and retries are left.
IsRetry(method, status, ra, left) ==
  /\ method \in AllowedMethods
  /\ \/ status \in ForceList
     \/ (left > 0 /\ ra /\ status \in RetryAfterStatuses)

\* An attempt is retried when it got no response, or a response is_retry accepts.
Retryable(method, status, ra, left) == status = 0 \/ IsRetry(method, status, ra, left)

\* Retry.increment: one retry is used up.  Retry.is_exhausted: total < 0.
RetryIncrement(total) == total - 1
IsExhausted(total) == total < 0

RaisesNever(status) == FALSE

\* response.raise_for_status(): HTTPError for 4xx and 5xx, nothing otherwise.
RaisesForStatus(status) == status >= 400 /\ status < 600

\* ----------------------------------------------------------------- bodies
Absent == "absent"
JobStatuses == {"pending", "running", "completed", "failed"}
Outputs == {"o1", "o2"}
Errors == {"e1"}

\* A response body.  json: response.json() parses it.  fields: it holds the keys
\* the caller reads from the answer of a wrapper other than get_result
\* (job_id, data, total).  status, output, error: the keys of a result record.
Body(j, f, s, o, e) == [json |-> j, fields |-> f, status |-> s, output |-> o, error |-> e]
Malformed == Body(FALSE, FALSE, Absent, Absent, Absent)
ResultRecords == {Body(TRUE, FALSE, s, o, e) :
                    s \in JobStatuses \cup {Absent},
                    o \in Outputs \cup {Absent},
                    e \in Errors \cup {Absent}}
PlainBodies == {Body(TRUE, f, Absent, Absent, Absent) : f \in BOOLEAN}

NoResp == [status |-> 0, body |-> Malformed]

\* ------------------------------------------------------------- operations
MinRueGets == {"get_health", "list_models", "list_tasks"}
MinRueOps == MinRueGets \cup {"process_file", "get_result"}
RagflowWrappers == {"create_chat_completion", "create_agent_completion",
                    "create_dataset", "list_datasets", "update_dataset",
                    "delete_datasets", "list_documents", "update_document",
                    "delete_documents", "construct_knowledge_graph",
                    "get_knowledge_graph", "get_graphrag_status",
                    "delete_knowledge_graph", "construct_raptor", "get_raptor_status"}
RagflowOps == RagflowWrappers \cup {"upload_documents"}
FileOps == {"process_file", "upload_documents"}

\* The HTTP method each client method uses.
Method(o) ==
  CASE o \in {"get_health", "list_models", "list_tasks", "get_result", "list_datasets",
              "list_documents", "get_knowledge_graph", "get_graphrag_status",
              "get_raptor_status"} -> "GET"
    [] o \in {"update_dataset", "update_document"} -> "PUT"
    [] o \in {"delete_datasets", "delete_documents", "delete_knowledge_graph"} -> "DELETE"
    [] OTHER -> "POST"

\* The bodies a response with status s to method o may carry.  The body of a 4xx
\* or 5xx response is never read by a wrapper (raise_for_status raises first).
BodiesFor(o, s) ==
  IF RaisesForStatus(s) THEN {Malformed}
  ELSE IF o = "get_result" THEN ResultRecords \cup {Malformed}
  ELSE PlainBodies \cup {Malformed}

Terminal == {"completed", "failed"}
Ended == {"returned", "raised"}

\* The arguments of a client method: paths[i] says whether the i-th path exists.
Args(p, w, t, i) == [paths |-> p, wait |-> w, timeout |-> t, interval |-> i]
NoArgs == Args(<<>>, FALSE, 0, 1)
PathLists == UNION {[1..n -> BOOLEAN] : n \in 1..MaxFiles}

VARIABLES
  client,      \* "minrue" or "ragflow": the client constructed
  viaCLI,      \* the client was constructed by the CLI (default arguments)
  retries,     \* the session's Retry.total
  base_url,    \* self.base_url
  api_key,     \* self.api_key (RagflowClient), "none" for MinRueClient
  self_timeout,\* self.timeout, the timeout of every request
  headers,     \* the session's default headers (names)
  cmd,         \* the CLI command, "none" outside the CLI
  cmdpc,       \* "none", "running", "exited"
  cmdargs,     \* [file: the input paths exist, output: "none" | "given"]
  exit,        \* the exit code of an exited command
  printed,     \* what the command printed last: "none", "info", "result", "error"
  outfile,     \* the output file: "untouched", "" (truncated) or the text written
  op,          \* the client method running or run last, "none" at first
  args,        \* its arguments
  pc,          \* "idle", "post", "http", "resp", "sleep", "returned", "raised"
  handles,     \* the file handles the method opened, each "open" or "closed"
  reqHeaders,  \* the headers of the request being sent
  method,      \* the HTTP method of the request being sent
  total,       \* the retries the request has left
  attempts,    \* HTTP attempts made for the request
  last,        \* the status the request's last attempt was answered with
  resp,        \* the response session.get/post returned
  result,      \* the value the method returned
  exc,         \* the exception raised, "none" if none
  now,         \* seconds since the invocation began
  start_time,  \* get_result's start_time
  fetchDur,    \* seconds the current request has taken
  netcalls,    \* HTTP attempts made by the invocation (saturating)
  polls        \* session.get calls made by get_result (saturating)

cfgvars == <<client, viaCLI, retries, base_url, api_key, self_timeout>>
clivars == <<cmd, cmdpc, cmdargs, exit, printed, outfile>>
reqvars == <<reqHeaders, method, total, attempts, last, resp, fetchDur>>
opvars == <<op, args, pc, handles, result, exc, start_time, polls>>
vars == <<client, viaCLI, retries, base_url, api_key, self_timeout, headers, cmd, cmdpc, cmdargs, exit, printed, outfile,
          op, args, pc, handles, reqHeaders, method, total, attempts, last,
          resp, result, exc, now, start_time, fetchDur, netcalls, polls>>

\* RagflowClient._create_session sets Authorization and Content-Type on the
\* session; MinRueClient._create_session sets no header.
SessionHeaders(c) == IF c = "ragflow" THEN {"Authorization", "Content-Type"} ELSE {}

\* __init__: self.base_url = base_url.rstrip('/'), self.api_key = api_key.
BaseUrl == "http://localhost:8000/v1"
ApiKey(c) == IF c = "ragflow" THEN "key" ELSE "none"

NoCmdArgs == [file |-> <<>>, output |-> "none"]

Init ==
  /\ client \in {"minrue", "ragflow"}
  /\ viaCLI \in BOOLEAN
  /\ retries \in IF viaCLI THEN {DefaultRetries} ELSE 0..MaxRetries
  /\ base_url = BaseUrl /\ api_key = ApiKey(client) /\ self_timeout = DefaultTimeout
  /\ headers = SessionHeaders(client)
  /\ cmd = "none" /\ cmdpc = "none" /\ cmdargs = NoCmdArgs
  /\ exit = 0 /\ printed = "none" /\ outfile = "untouched"
  /\ op = "none" /\ args = NoArgs /\ pc = "idle"
  /\ handles = <<>> /\ reqHeaders = {} /\ method = "GET"
  /\ total = retries /\ attempts = 0 /\ last = 0
  /\ resp = NoResp /\ result = Malformed /\ exc = "none"
  /\ now = 0 /\ start_time = 0 /\ fetchDur = 0 /\ netcalls = 0 /\ polls = 0

\* ------------------------------------------------------- client methods
ProcessFileNoCheck(exists) == FALSE

\* process_file: `if not os.path.exists(file_path): raise FileNotFoundError`.
ProcessFileMissing(exists) == ~exists

\* process_file: `with open(file_path, 'rb') as f: files = {...}`; the with block
\* ends before session.post is called, so the handle in `files` is closed by then.
ProcessFileHandles == <<"closed">>

\* upload_documents: the index of the first path open() fails on (one past the
\* end when every path exists).
FirstMissing(paths) ==
  IF \E i \in 1..Len(paths) : ~paths[i]
    THEN CHOOSE i \in 1..Len(paths) : ~paths[i] /\ \A j \in 1..(i - 1) : paths[j]
    ELSE Len(paths) + 1

\* upload_documents: the handles its loop has opened when it ends or raises.
UploadHandles(paths) == [i \in 1..(FirstMissing(paths) - 1) |-> "open"]

\* upload_documents: `headers = self.session.headers.copy()` and
\* `del headers["Content-Type"]` on the copy.
UploadHeaders(h) == h \ {"Content-Type"}

SessionHeadersAfterDel(h) == h \ {"Content-Type"}

\* upload_documents: session.headers once `del headers["Content-Type"]` has run;
\* the del acts on the copy, the session's own headers keep every key.
SessionHeadersAfterCopyDel(h) == h

\* session.post(url, ..., headers=h): the request is sent with the headers given
\* merged over the session's; a header is dropped only when given as None.
MergeSetting(h, sessionHeaders) == h \cup sessionHeaders

\* A new request through the session: the Retry object starts with total = retries.
StartRequest(m, h) ==
  /\ method' = m /\ reqHeaders' = h /\ total' = retries
  /\ attempts' = 0 /\ last' = 0
  /\ resp' = NoResp /\ fetchDur' = 0

\* The call of client method o with arguments a at time t, up to its first
\* request (pc "http"), its multipart request (pc "post") or its first raise.
Invoke(o, a, t) ==
  /\ op' = o /\ args' = a /\ result' = Malformed
  /\ headers' = IF o = "upload_documents" /\ FirstMissing(a.paths) > Len(a.paths)
                  THEN SessionHeadersAfterCopyDel(headers)
                  ELSE headers
  /\ start_time' = IF o = "get_result" THEN t ELSE 0
  /\ polls' = IF o = "get_result" THEN 1 ELSE 0
  /\ StartRequest(Method(o),
                  IF o = "upload_documents"
                    THEN MergeSetting(UploadHeaders(headers),
                                      SessionHeadersAfterCopyDel(headers))
                    ELSE headers)
  /\ CASE o = "process_file" ->
            IF ProcessFileMissing(a.paths[1])
              THEN pc' = "raised" /\ exc' = "FileNotFoundError" /\ handles' = <<>>
              ELSE pc' = "post" /\ exc' = "none" /\ handles' = ProcessFileHandles
       [] o = "upload_documents" ->
            /\ handles' = UploadHandles(a.paths)
            /\ IF FirstMissing(a.paths) <= Len(a.paths)
                 THEN pc' = "raised" /\ exc' = "FileNotFoundError"
                 ELSE pc' = "post" /\ exc' = "none"
       [] OTHER -> pc' = "http" /\ exc' = "none" /\ handles' = <<>>

OpsOf(c) == IF c = "minrue" THEN MinRueOps ELSE RagflowOps

ArgsFor(o) ==
  CASE o = "process_file" -> {Args(p, FALSE, 0, 1) : p \in [1..1 -> BOOLEAN]}
    [] o = "upload_documents" -> {Args(p, FALSE, 0, 1) : p \in PathLists}
    [] o = "get_result" -> {Args(<<>>, w, t, i) :
                              w \in BOOLEAN, t \in 0..MaxWait, i \in 1..MaxInterval}
    [] OTHER -> {NoArgs}

\* A caller of the Python API calls a method of the client; the previous call,
\* if any, has returned or raised.
APICall ==
  /\ ~viaCLI
  /\ pc \in {"idle"} \cup Ended
  /\ \E o \in OpsOf(client) : \E a \in ArgsFor(o) : Invoke(o, a, 0)
  /\ now' = 0 /\ netcalls' = 0
  /\ UNCHANGED <<cfgvars, clivars>>

\* session.post(url, files=files, ...): preparing the multipart body reads every
\* file part; reading a closed file raises ValueError and nothing is sent.
SessionSend ==
  /\ pc = "post"
  /\ IF \E i \in 1..Len(handles) : handles[i] = "closed"
       THEN pc' = "raised" /\ exc' = "ValueError"
       ELSE pc' = "http" /\ exc' = exc
  /\ UNCHANGED <<cfgvars, headers, clivars, reqvars, op, args, handles, result,
                 start_time, polls, now, netcalls>>

\* One HTTP attempt of the request in flight.  The remote answers with a status
\* (or not at all) after d seconds; the adapter retries it while the Retry
\* object is not exhausted, raises when it is, and hands any other response back.
HttpAttempt ==
  /\ pc = "http"
  /\ \E s \in Statuses \cup {0}, d \in 0..MaxFetch : \E ra \in RetryAfterFor(s) :
       /\ attempts' = attempts + 1
       /\ last' = s
       /\ now' = now + d
       /\ fetchDur' = fetchDur + d
       /\ netcalls' = Min(netcalls + 1, CountCap)
       /\ IF Retryable(method, s, ra, total)
            THEN /\ total' = RetryIncrement(total)
                 /\ resp' = resp
                 /\ IF IsExhausted(total')
                      THEN /\ pc' = "raised"
                           /\ exc' = IF s = 0 THEN "ConnectionError" ELSE "RetryError"
                      ELSE pc' = "http" /\ exc' = exc
            ELSE /\ total' = total
                 /\ \E b \in BodiesFor(op, s) : resp' = [status |-> s, body |-> b]
                 /\ pc' = "resp" /\ exc' = exc
  /\ UNCHANGED <<cfgvars, headers, clivars, reqHeaders, method, op, args, handles,
                 result, start_time, polls>>

\* upload_documents closes its handles after raise_for_status; process_file and
\* the other wrappers hold none open here.
CloseAll(h) == [i \in 1..Len(h) |-> "closed"]

\* The rest of a wrapper other than get_result once the session returned a
\* response: raise_for_status, (upload_documents: close the handles), json().
AfterResponse ==
  /\ pc = "resp" /\ op # "get_result"
  /\ IF RaisesForStatus(resp.status)
       THEN pc' = "raised" /\ exc' = "HTTPError" /\ handles' = handles /\ result' = result
       ELSE /\ handles' = IF op = "upload_documents" THEN CloseAll(handles) ELSE handles
            /\ IF resp.body.json
                 THEN pc' = "returned" /\ exc' = exc /\ result' = resp.body
                 ELSE pc' = "raised" /\ exc' = "JSONDecodeError" /\ result' = result
  /\ UNCHANGED <<cfgvars, headers, clivars, reqvars, op, args, start_time, polls,
                 now, netcalls>>

GetResultReturnsRunning(status, wait) ==
  status = "completed" \/ status = "failed" \/ status = "running" \/ ~wait

GetResultReturnsCompletedOnly(status, wait) == status = "completed" \/ ~wait

\* get_result: `result['status'] == 'completed' or result['status'] == 'failed' or not wait`.
GetResultReturns(status, wait) == status = "completed" \/ status = "failed" \/ ~wait

StatusKeyDefaulted(body) == FALSE

\* get_result: `result['status']` raises KeyError when the record has no such key.
StatusKeyMissing(body) == body.status = Absent

DeadlineLate(t, start, timeout) == t - start > timeout + 2

\* get_result: `time.time() - start_time > timeout`.
DeadlinePassed(t, start, timeout) == t - start > timeout

AfterStatusDeadlineFirst(status, wait, t, start, timeout) ==
  IF DeadlinePassed(t, start, timeout) THEN "timeout"
  ELSE IF GetResultReturns(status, wait) THEN "return"
  ELSE "sleep"

\* get_result, the body of the loop after the fetch: the return test comes
\* first, the deadline test only when it failed, the sleep when both failed.
AfterStatus(status, wait, t, start, timeout) ==
  IF GetResultReturns(status, wait) THEN "return"
  ELSE IF DeadlinePassed(t, start, timeout) THEN "timeout"
  ELSE "sleep"

\* get_result, from the response of session.get to the return, the raise or the
\* call of time.sleep.
GetResultAfterFetch ==
  /\ pc = "resp" /\ op = "get_result"
  /\ IF RaisesForStatus(resp.status)
       THEN pc' = "raised" /\ exc' = "HTTPError" /\ result' = result
     ELSE IF ~resp.body.json
       THEN pc' = "raised" /\ exc' = "JSONDecodeError" /\ result' = result
     ELSE IF StatusKeyMissing(resp.body)
       THEN pc' = "raised" /\ exc' = "KeyError" /\ result' = result
     ELSE LET next == AfterStatus(resp.body.status, args.wait, now, start_time,
                                  args.timeout)
          IN IF next = "return"
               THEN pc' = "returned" /\ exc' = exc /\ result' = resp.body
             ELSE IF next = "timeout"
               THEN pc' = "raised" /\ exc' = "TimeoutError" /\ result' = result
             ELSE pc' = "sleep" /\ exc' = exc /\ result' = result
  /\ UNCHANGED <<cfgvars, headers, clivars, reqvars, op, args, handles, start_time,
                 polls, now, netcalls>>

SleepNoTime(t, interval) == t

\* time.sleep(polling_interval): the time at which it returns.
SleepEnd(t, interval) == t + interval

\* get_result: time.sleep(polling_interval), then the next session.get.
GetResultSleep ==
  /\ pc = "sleep"
  /\ now' = SleepEnd(now, args.interval)
  /\ pc' = "http"
  /\ polls' = Min(polls + 1, CountCap)
  /\ StartRequest(method, reqHeaders)
  /\ UNCHANGED <<cfgvars, headers, clivars, op, args, handles, result, exc,
                 start_time, netcalls>>

\* ---------------------------------------------------------------- the CLIs
MinRueCommands == {"health", "models", "tasks", "process", "result"}
RagflowCommands == {"chat", "dataset_create", "dataset_list", "dataset_delete",
                    "document_upload"}
CommandsOf(c) == IF c = "minrue" THEN MinRueCommands ELSE RagflowCommands

\* The client method a command calls first.
FirstOp(c) ==
  CASE c = "health" -> "get_health"
    [] c = "models" -> "list_models"
    [] c = "tasks" -> "list_tasks"
    [] c = "process" -> "process_file"
    [] c = "result" -> "get_result"
    [] c = "chat" -> "create_chat_completion"
    [] c = "dataset_create" -> "create_dataset"
    [] c = "dataset_list" -> "list_datasets"
    [] c = "dataset_delete" -> "delete_datasets"
    [] OTHER -> "upload_documents"

CmdArgs(f, o) == [file |-> f, output |-> o]

\* The command lines: the input paths exist or not; --output is given or not.
CmdArgsFor(c) ==
  CASE c = "process" -> {CmdArgs(f, o) : f \in [1..1 -> BOOLEAN], o \in {"none", "given"}}
    [] c = "result" -> {CmdArgs(<<>>, o) : o \in {"none", "given"}}
    [] c = "document_upload" -> {CmdArgs(f, "none") : f \in PathLists}
    [] OTHER -> {NoCmdArgs}

\* The arguments of the first client call of a command.
FirstArgs(c, ca) ==
  CASE c = "result" -> Args(<<>>, TRUE, ResultWait, CliInterval)
    [] c \in {"process", "document_upload"} -> Args(ca.file, FALSE, 0, 1)
    [] OTHER -> NoArgs

\* A command starts: a fresh process, the CLI's own client, the first call.
CLIStart ==
  /\ viaCLI
  /\ cmdpc # "running"
  /\ \E c \in CommandsOf(client) : \E ca \in CmdArgsFor(c) :
       /\ cmd' = c /\ cmdargs' = ca
       /\ Invoke(FirstOp(c), FirstArgs(c, ca), 0)
  /\ cmdpc' = "running" /\ exit' = 0 /\ printed' = "info" /\ outfile' = "untouched"
  /\ now' = 0 /\ netcalls' = 0
  /\ UNCHANGED cfgvars

\* The commands that read keys of the answer: job_info['job_id'],
\* result['data'], result['total'].
NeedsFields(c) == c \in {"process", "dataset_create", "dataset_list", "document_upload"}

\* The exception the command's own code raises after client method o returned r:
\* a missing key, or the output file that cannot be opened (w: open() succeeds).
CliException(c, o, r, ca, w) ==
  CASE o = "get_result" ->
         IF r.status = "completed"
           THEN IF ca.output = "given" /\ ~w THEN "OSError"
                ELSE IF r.output = Absent THEN "KeyError" ELSE "none"
           ELSE IF r.error = Absent THEN "KeyError" ELSE "none"
    [] o # "get_result" /\ NeedsFields(c) /\ ~r.fields -> "KeyError"
    [] OTHER -> "none"

CliExitIgnoresExceptions(e, o, r) ==
  IF e = "none" /\ o = "get_result" /\ r.status # "completed" THEN 1 ELSE 0

\* The exit code of a command that ends with exception e ("none": none) after
\* client method o returned r: `return 1` in the except clauses and in the
\* 'Processing failed' branches, `return 0` otherwise.
CliExit(e, o, r) ==
  IF e # "none" THEN 1
  ELSE IF o = "get_result" /\ r.status # "completed" THEN 1
  ELSE 0

CliOutfileAnyStatus(o, r, ca, w, old) ==
  IF o = "get_result" /\ ca.output = "given" /\ w
    THEN IF r.output = Absent THEN "" ELSE r.output
    ELSE old

\* The output file after process/result handled the record r:
\* `with open(output_path, 'w') as f: f.write(result['output'])` creates or
\* truncates the file before result['output'] is looked up.
CliOutfile(o, r, ca, w, old) ==
  IF o = "get_result" /\ r.status = "completed" /\ ca.output = "given" /\ w
    THEN IF r.output = Absent THEN "" ELSE r.output
    ELSE old

\* process goes on to get_result when process_file returned a job id and an
\* output path was given.
ProcessWaits(c, o, r, ca) ==
  c = "process" /\ o = "process_file" /\ r.fields /\ ca.output # "none"

\* The command handles what its client call returned or raised: it calls
\* get_result (process), or prints and ends with its exit code.
CLIHandle ==
  /\ cmdpc = "running"
  /\ pc \in Ended
  /\ IF pc = "returned" /\ ProcessWaits(cmd, op, result, cmdargs)
       THEN /\ Invoke("get_result", Args(<<>>, TRUE, ProcessWait, CliInterval), now)
            /\ UNCHANGED <<cmd, cmdpc, cmdargs, exit, printed, outfile>>
       ELSE \E w \in BOOLEAN :
            LET e == IF pc = "raised" THEN exc
                     ELSE CliException(cmd, op, result, cmdargs, w)
                x == CliExit(e, op, result)
            IN /\ exc' = e
               /\ exit' = x
               /\ cmdpc' = "exited"
               /\ printed' = IF x = 0 THEN "result" ELSE "error"
               /\ outfile' = IF pc = "returned"
                               THEN CliOutfile(op, result, cmdargs, w, outfile)
                               ELSE outfile
               /\ UNCHANGED <<cmd, cmdargs, headers, reqvars, op, args, pc, handles,
                              result, start_time, polls>>
  /\ UNCHANGED <<cfgvars, now, netcalls>>

Next ==
  \/ APICall
  \/ CLIStart
  \/ SessionSend
  \/ HttpAttempt
  \/ AfterResponse
  \/ GetResultAfterFetch
  \/ GetResultSleep
  \/ CLIHandle

Spec == Init /\ [][Next]_vars

\* The client used through the Python API alone, for the claims about
\* behaviours (termination): MinRueClient with retries in 0..MaxRetries, any
\* method called with any arguments of ArgsFor.
PollInit == Init /\ ~viaCLI /\ client = "minrue"

PollNext ==
  \/ APICall
  \/ SessionSend
  \/ HttpAttempt
  \/ AfterResponse
  \/ GetResultAfterFetch
  \/ GetResultSleep

\* The running method takes its next step: an HTTP attempt ends within the
\* request timeout, time.sleep returns, local code runs on.  Nothing obliges
\* the caller to make another call.
PollStep == SessionSend \/ HttpAttempt \/ AfterResponse \/ GetResultAfterFetch
              \/ GetResultSleep

FairSpec == PollInit /\ [][PollNext]_vars /\ WF_vars(PollStep)

\* ----------------------------------------------------------------- claims
\* The last poll of get_result was answered, without an HTTP error, by a JSON
\* record that has a status.
Answered == attempts >= 1 /\ pc \notin {"http", "resp"} /\ resp.status # 0
              /\ resp.status < 400 /\ resp.body.json /\ resp.body.status # Absent

\* C1: get_result returns the first fetched record, after exactly one
\* session.get, whenever that record's status is 'completed' or 'failed' (for
\* either value of wait) and whenever wait is false (for any status): once the
\* first poll is answered by such a record the method has returned it, and it
\* never goes on to sleep and poll again.
FirstFetchReturns ==
  (op = "get_result" /\ polls = 1 /\ Answered
     /\ (resp.body.status \in Terminal \/ ~args.wait))
    => (pc = "returned" /\ result = resp.body)

FirstFetchReturnsWitness ==
  op = "get_result" /\ pc = "returned" /\ polls = 1 /\ args.wait
    /\ result.status = "failed" /\ cmdpc = "none"

\* C2: every invocation of get_result ends: it returns or raises, whatever the
\* remote answers and whatever wait, timeout and (positive) polling interval.
GetResultEnds == [](op = "get_result" => <>(pc \in Ended))

GetResultEndsWitness ==
  op = "get_result" /\ pc = "raised" /\ exc = "TimeoutError" /\ polls >= 2
    /\ args.timeout = MaxWait

\* C3, as stated: a get_result that times out ends no later than
\* timeout + polling_interval after it was invoked.
TimeoutWithinWaitPlusInterval ==
  (op = "get_result" /\ exc = "TimeoutError")
    => now - start_time <= args.timeout + args.interval

\* C3, amended: a waiting get_result whose last poll was answered with a
\* non-terminal status has ended by TimeoutError only, and a get_result that
\* times out ends more than timeout, and no later than timeout +
\* polling_interval + the time its last fetch took, after it was invoked.
TimeoutWithinWaitIntervalFetch ==
  /\ (op = "get_result" /\ pc \in Ended /\ args.wait /\ Answered
        /\ resp.body.status \notin Terminal)
       => exc = "TimeoutError"
  /\ (op = "get_result" /\ exc = "TimeoutError")
       => /\ pc = "raised"
          /\ now - start_time > args.timeout
          /\ now - start_time <= args.timeout + args.interval + fetchDur

TimeoutWitness ==
  op = "get_result" /\ pc = "raised" /\ exc = "TimeoutError" /\ polls >= 2
    /\ fetchDur >= 1 /\ now - start_time = args.timeout + args.interval + fetchDur

\* C4: an error response at any poll of get_result ends the loop there with the
\* remote failure (HTTPError, or RetryError once the session's retries are used
\* up): no sleep and no further fetch follow it.  TimeoutError is raised only
\* after a poll that was answered without error by a non-terminal record, with
\* the deadline passed.
RemoteErrorEndsPoll ==
  op = "get_result" =>
    /\ (attempts >= 1 /\ pc \notin {"http", "resp"} /\ last >= 400)
         => (pc = "raised" /\ exc \in {"HTTPError", "RetryError"})
    /\ exc = "TimeoutError"
         => (pc = "raised" /\ Answered /\ resp.body.status \notin Terminal
               /\ now - start_time > args.timeout)

RemoteErrorWitness ==
  op = "get_result" /\ pc = "raised" /\ exc = "HTTPError" /\ polls >= 2
    /\ resp.status = 404

\* C5: process_file with a path that does not exist raises FileNotFoundError
\* and makes no HTTP attempt.
NoNetworkWithoutFile ==
  (op = "process_file" /\ ~args.paths[1])
    => (pc = "raised" /\ exc = "FileNotFoundError" /\ netcalls = 0 /\ attempts = 0)

NoNetworkWithoutFileWitness ==
  op = "process_file" /\ ~args.paths[1] /\ pc = "raised" /\ cmdpc = "exited"

\* C6: when process_file or upload_documents has returned or raised, every
\* file handle it opened is closed.
HandlesClosedAtEnd ==
  (op \in FileOps /\ pc \in Ended)
    => \A i \in 1..Len(handles) : handles[i] = "closed"

\* C7: while process_file or upload_documents issues its multipart POST and
\* until the request has completed, the handles passed as file parts are open.
HandlesOpenDuringRequest ==
  (op \in FileOps /\ pc \in {"post", "http"})
    => \A i \in 1..Len(handles) : handles[i] = "open"

\* C8: with retry count N (retries), for GET, POST, PUT and DELETE alike: a
\* request is attempted again only after an answer with a status of the force
\* list (or no answer at all), and at most N times; when its last answer
\* carries a force-list status the request has failed with RetryError after
\* N + 1 attempts; an answer with any other non-2xx status is never followed by
\* another attempt, and the method that sent the request fails with HTTPError.
RetryOnlyForceList ==
  /\ (pc = "http" /\ attempts >= 1)
       => (last \in ForceList \cup {0} /\ attempts <= retries)
  /\ (pc # "http" /\ attempts >= 1 /\ last \in ForceList)
       => (pc = "raised" /\ exc = "RetryError" /\ attempts = retries + 1)
  /\ (pc \notin {"http", "resp"} /\ attempts >= 1 /\ last \notin ForceList /\ last # 0
        /\ ~(last >= 200 /\ last < 300))
       => (pc = "raised" /\ exc = "HTTPError")

\* C9: a CLI command ends with exit code 0 or 1: 0 only when its client calls
\* returned (no error status, a JSON body with the keys the command reads, the
\* job completed), and 1 with an error message printed whenever an exception was
\* raised at any step or the job failed.
CliExitCodes ==
  cmdpc = "exited" =>
    /\ exit \in {0, 1}
    /\ pc \in Ended
    /\ exit = 0 <=> (exc = "none" /\ ~(op = "get_result" /\ result.status = "failed"))
    /\ exit = 0 => /\ pc = "returned" /\ resp.status < 400 /\ resp.body.json
                   /\ (NeedsFields(cmd) /\ op # "get_result") => resp.body.fields
                   /\ op = "get_result" =>
                        (resp.body.status = "completed" /\ resp.body.output # Absent)
    /\ exit = 1 => printed = "error"
    /\ pc = "raised" => exit = 1

CliExitCodesWitness ==
  cmdpc = "exited" /\ cmd = "result" /\ exit = 1 /\ exc = "TimeoutError"
    /\ printed = "error"

\* C10: a terminal record returned by get_result is either 'completed' with an
\* output and no error, or 'failed' with an error and no output.
TerminalOutcomeExclusive ==
  (op = "get_result" /\ pc = "returned" /\ result.status \in Terminal)
    => \/ (result.status = "completed" /\ result.output # Absent /\ result.error = Absent)
       \/ (result.status = "failed" /\ result.error # Absent /\ result.output = Absent)

\* The remote service did not play its part in a `process` run: a request was
\* sent and the run failed on its answer (an exception out of the session, a
\* submission answered without a job id, a record that is not 'completed' with
\* an output), or the output file could not be opened.
ServiceDeclined ==
  \/ /\ attempts >= 1
     /\ \/ pc = "raised"
        \/ (op = "process_file" /\ ~result.fields)
        \/ (op = "get_result" /\ (result.status # "completed" \/ result.output = Absent))
  \/ exc = "OSError"

\* C11: the `process` command given an existing input file and an output path,
\* when the service accepts the submission with a job id and a poll returns
\* 'completed' with an output string, writes exactly that string to the output
\* file and ends with exit code 0: a run that has ended has either done so, or
\* the service declined.
ProcessWritesOutput ==
  (cmdpc = "exited" /\ cmd = "process" /\ cmdargs.file[1] /\ cmdargs.output = "given")
    => \/ /\ exit = 0 /\ op = "get_result" /\ pc = "returned"
          /\ result.status = "completed" /\ result.output # Absent
          /\ outfile = result.output
       \/ ServiceDeclined

\* C12: no client operation changes the client's session configuration: after
\* any sequence of calls on a MinRueClient or a RagflowClient, upload_documents
\* included (it deletes Content-Type from a copy of the headers, for its own
\* request), the base URL, the timeout, the credential, the retry count and the
\* session's default headers (Authorization and Content-Type for RagflowClient)
\* are what the constructor set.
SessionConfigUnchanged ==
  /\ base_url = BaseUrl
  /\ self_timeout = DefaultTimeout
  /\ api_key = ApiKey(client)
  /\ headers = SessionHeaders(client)
  /\ client = "ragflow" => headers = {"Authorization", "Content-Type"}
  /\ retries \in (IF viaCLI THEN {DefaultRetries} ELSE 0..MaxRetries)
  /\ (pc = "http" /\ attempts = 0) => total = retries

SessionConfigUnchangedWitness ==
  client = "ragflow" /\ op = "upload_documents" /\ pc = "returned"
    /\ Len(handles) >= 2 /\ netcalls >= 2 /\ "Content-Type" \in headers

\* C13: when a poll of get_result is answered without an HTTP error by a JSON
\* record that has no 'status', get_result has failed at that poll with the
\* failure of reading the record (KeyError), for either value of wait: it has
\* not returned the record and it does not sleep or poll again; a `result` or
\* `process` command whose get_result ended so has exit code 1, an error
\* printed and the output file untouched.
StatuslessPollFails ==
  (op = "get_result" /\ attempts >= 1 /\ pc \notin {"http", "resp"}
     /\ resp.status # 0 /\ resp.status < 400 /\ resp.body.json
     /\ resp.body.status = Absent)
    => /\ pc = "raised" /\ exc = "KeyError" /\ result = Malformed
       /\ (cmdpc = "exited" /\ cmd \in {"result", "process"})
            => (exit = 1 /\ printed = "error" /\ outfile = "untouched")

StatuslessPollFailsWitness ==
  cmdpc = "exited" /\ cmd = "result" /\ op = "get_result" /\ polls >= 2
    /\ resp.status = 200 /\ resp.body.json /\ resp.body.status = Absent
    /\ resp.body.output # Absent /\ exit = 1

\* C14: a record that get_result called with wait=true has returned has status
\* 'completed' or 'failed'; a pending or running record (or one of any other
\* status) is never returned to a waiting caller.
WaitingReturnsTerminal ==
  (op = "get_result" /\ pc = "returned" /\ args.wait)
    => (result.status \in Terminal /\ result = resp.body)

WaitingReturnsTerminalWitness ==
  op = "get_result" /\ pc = "returned" /\ args.wait /\ polls >= 2
    /\ result.status = "completed" /\ cmdpc = "none"

\* C15: get_result tests the deadline only after a fetch that was answered with
\* a non-terminal status: TimeoutError is never raised before a fetch has been
\* made and answered, and a terminal record is returned as the result, not
\* turned into a timeout, also when its fetch completed after the maximum wait
\* had elapsed.
DeadlineOnlyAfterNonTerminalFetch ==
  op = "get_result" =>
    /\ exc = "TimeoutError"
         => /\ attempts >= 1 /\ netcalls >= 1 /\ polls >= 1
            /\ resp.status # 0 /\ resp.body.json
            /\ resp.body.status \notin Terminal \cup {Absent}
            /\ args.wait
    /\ (Answered /\ resp.body.status \in Terminal)
         => (pc = "returned" /\ result = resp.body /\ exc # "TimeoutError")

DeadlineOnlyAfterNonTerminalFetchWitness ==
  op = "get_result" /\ pc = "returned" /\ args.wait /\ polls >= 2
    /\ result.status \in Terminal /\ now - start_time > args.timeout
    /\ args.timeout >= 1

\* C16: the `process` and `result` commands write the output file only when
\* the record get_result returned has status 'completed' (and an output path
\* was given); when the returned status is not 'completed', or a client call
\* raised (a timeout, an HTTP or transport error, an unreadable answer, a
\* missing input file), the command ends with exit code 1 and the output file
\* is neither created nor modified.
OutputOnlyWhenCompleted ==
  cmd \in {"process", "result"} =>
    /\ outfile # "untouched"
         => /\ cmdpc = "exited" /\ cmdargs.output = "given"
            /\ op = "get_result" /\ pc = "returned" /\ result.status = "completed"
            /\ outfile = (IF result.output = Absent THEN "" ELSE result.output)
    /\ (cmdpc = "exited"
          /\ (pc = "raised" \/ (op = "get_result" /\ result.status # "completed")))
         => (exit = 1 /\ outfile = "untouched")

OutputOnlyWhenCompletedWitness ==
  cmdpc = "exited" /\ cmd = "result" /\ cmdargs.output = "given"
    /\ op = "get_result" /\ pc = "returned" /\ polls >= 2
    /\ result.status = "failed" /\ result.output # Absent
    /\ exit = 1 /\ outfile = "untouched"

====
